---- MODULE Spec2Model ----
(***************************************************************************)
(* TelegramFUSE: the pyfuse3 Operations object of Telegram/fuse_impl.py    *)
(* and the TelegramFileClient of Telegram/TelegramFUSE.py.                 *)
(*                                                                         *)
(* The state is the state of one Operations object: the sqlite connection  *)
(* (the three tables as the connection sees them, and the last committed   *)
(* snapshot), the open-count map, the single write buffer, the client's    *)
(* LRU content cache and the remote channel.  One action per upcall; an    *)
(* upcall that raises leaves the object as the statements executed before  *)
(* the raise left it, and the next upcall runs on that object.             *)
(*                                                                         *)
(* Lengths are counted in units of 10^9 bytes, the unit in which the       *)
(* source writes its two size constants.  Names are bytes objects (pyfuse3 *)
(* passes bytes).  The configuration modelled is the one without           *)
(* ENCRYPTION_KEY (TelegramFUSE.py:36, encryption_key = None).             *)
(***************************************************************************)
EXTENDS Integers, Sequences, FiniteSets, TLC

(* ------------------------------ bounds --------------------------------- *)
\* largest inode id the model lets _create allocate
MaxInode == 3
\* largest contents.rowid the model lets an INSERT allocate
MaxRowid == 4
\* largest message id the model lets the channel allocate
MaxMsgId == 2
\* largest length the model lets the write buffer grow to
MaxBuf == 1
\* largest open count per inode
MaxOpen == 1
\* largest length of the bytes written in the round-trip specification
BigLen == 6
\* largest message id the channel allocates in the round-trip specification
BigMsgId == 4
\* the bytes of directory entries the kernel asks one readdir for
ReplySize == 325

(* ------------------------- program constants --------------------------- *)
\* pyfuse3.ROOT_INODE
ROOT_INODE == 1
\* FILE_MAX_SIZE_BYTES = int(2 * 1e9), in units of 10^9 bytes
FILE_MAX_SIZE_BYTES == 2
\* CACHE_MAXSIZE = 5e9, in units of 10^9 bytes
CACHE_MAXSIZE == 5

S_IFDIR == "S_IFDIR"
S_IFREG == "S_IFREG"
S_IFLNK == "S_IFLNK"

\* directory entry names the upcalls are called with (bytes)
Names == {"..", "a", "b"}
\* byte values written
Bytes == {1, 2}
\* the value None of an optional file handle
None == 0

VARIABLES
    inodes,             \* table inodes as the connection sees it: id -> [mode, size]
    contents,           \* table contents: set of [rowid, name, inode, parent_inode]
    seq,                \* sqlite_sequence of contents (AUTOINCREMENT): largest rowid given
    telegram_messages,  \* table telegram_messages: set of [id, inode]
    committed,          \* the tables as of the last db.commit()
    inode_open_count,   \* Operations.inode_open_count: the keys present -> count
    write_buffer,       \* Operations.write_buffer
    wb_alias,           \* the key whose cached bytearray IS the write_buffer object, or None
    cached_files,       \* client.cached_files: LRU order, least recent first, [key, val, size]
    channel,            \* the remote channel: message id -> payload
    next_msg_id,        \* the id the channel gives the next message
    ret,                \* the last upcall's error and return value: the bytes
                        \* read returns, <<n>> for the count n write returns
    flushed,            \* history: inode -> the bytes its last flush uploaded
    trip,               \* history: the file created last, the bytes written to it
                        \* through its handle since, and how far the round trip
                        \* create, write, release, open, read has come
    listing             \* history: the directory the kernel is listing, the offset
                        \* of its next readdir, the entries returned to it so far

vars == <<inodes, contents, seq, telegram_messages, committed, inode_open_count,
          write_buffer, wb_alias, cached_files, channel, next_msg_id, ret, flushed, trip, listing>>

(* ------------------------------ helpers -------------------------------- *)
Min(a, b) == IF a < b THEN a ELSE b

MaxOf(S) == CHOOSE x \in S : \A y \in S : y <= x

\* Python's s[a:b] for 0 <= a
Slice(s, a, b) == SubSeq(s, Min(a, Len(s)) + 1, Min(b, Len(s)))

\* the elements of a finite set of integers in ascending order
RECURSIVE SortedSeq(_)
SortedSeq(S) ==
    IF S = {} THEN <<>>
    ELSE LET m == CHOOSE x \in S : \A y \in S : x <= y
         IN <<m>> \o SortedSeq(S \ {m})

RECURSIVE ConcatAll(_)
ConcatAll(ss) == IF ss = <<>> THEN <<>> ELSE Head(ss) \o ConcatAll(Tail(ss))

RECURSIVE SumSizes(_)
SumSizes(c) == IF c = <<>> THEN 0 ELSE Head(c).size + SumSizes(Tail(c))

Restrict(f, S) == [x \in S |-> f[x]]

(* ------------------- cachetools.LRUCache (cached_files) ---------------- *)
CacheHas(c, k) == \E i \in DOMAIN c : c[i].key = k

CacheEntry(c, k) == c[CHOOSE i \in DOMAIN c : c[i].key = k]

CacheRemove(c, k) == SelectSeq(c, LAMBDA e : e.key # k)

\* LRUCache.__getitem__: the entry becomes the most recently used
CacheTouch(c, k) == IF CacheHas(c, k) THEN Append(CacheRemove(c, k), CacheEntry(c, k)) ELSE c

\* Cache.__setitem__'s "while currsize + size > maxsize: popitem()" (least recent first)
RECURSIVE CacheEvict(_, _)
CacheEvict(c, size) ==
    IF c # <<>> /\ SumSizes(c) + size > CACHE_MAXSIZE
    THEN CacheEvict(Tail(c), size)
    ELSE c

\* LRUCache.__setitem__ for a value that fits (getsizeofelt = len)
CacheSet(c, k, v) ==
    LET size == Len(v)
        c1 == IF ~CacheHas(c, k) \/ CacheEntry(c, k).size < size
              THEN CacheEvict(c, size) ELSE c
    IN Append(CacheRemove(c1, k), [key |-> k, val |-> v, size |-> size])

\* an in-place change of the bytearray stored under k: the recorded size stays
CacheMutate(c, k, v) ==
    [i \in DOMAIN c |-> IF c[i].key = k THEN [c[i] EXCEPT !.val = v] ELSE c[i]]

(* --------------------------- TelegramFileClient ------------------------ *)
\* get_cached_file: the cached object, or None; reading the entry refreshes it
get_cached_file(c, fh) ==
    IF CacheHas(c, fh)
    THEN [hit |-> CacheEntry(c, fh).val # <<>>,
          val |-> CacheEntry(c, fh).val,
          cache |-> CacheTouch(c, fh)]
    ELSE [hit |-> FALSE, val |-> <<>>, cache |-> c]

\* upload_file's split of file_bytes into chunks
upload_chunks(file_bytes) ==
    IF Len(file_bytes) > FILE_MAX_SIZE_BYTES
    THEN LET num_chunks == (Len(file_bytes) + FILE_MAX_SIZE_BYTES) \div FILE_MAX_SIZE_BYTES
         IN [i \in 1..num_chunks |->
                Slice(file_bytes, (i - 1) * FILE_MAX_SIZE_BYTES, i * FILE_MAX_SIZE_BYTES)]
    ELSE <<file_bytes>>

\* the ids of the messages upload_file's send_file calls produce, in order
upload_ids(file_bytes) ==
    [i \in 1..Len(upload_chunks(file_bytes)) |-> next_msg_id + i - 1]

\* the channel after upload_file sent every chunk
upload_channel(file_bytes) ==
    LET chunks == upload_chunks(file_bytes)
        ids == upload_ids(file_bytes)
    IN [m \in DOMAIN channel \cup {ids[i] : i \in DOMAIN ids} |->
           IF m \in DOMAIN channel THEN channel[m]
           ELSE chunks[CHOOSE i \in DOMAIN ids : ids[i] = m]]

\* delete_messages
delete_messages(ch, ids) == Restrict(ch, DOMAIN ch \ ids)

\* download_file after its cache check missed: the messages' payloads in the
\* order given, stored in the cache.  err: a message is gone, the remote call
\* fails, or the cache refuses the value (ValueError: value too large)
download_file(c, fh, msgIds, net) ==
    IF ~net \/ \E i \in DOMAIN msgIds : msgIds[i] \notin DOMAIN channel
    THEN [err |-> TRUE, val |-> <<>>, cache |-> c]
    ELSE LET barr == ConcatAll([i \in DOMAIN msgIds |-> channel[msgIds[i]]])
         IN IF Len(barr) > CACHE_MAXSIZE
            THEN [err |-> TRUE, val |-> <<>>, cache |-> c]
            ELSE [err |-> FALSE, val |-> barr, cache |-> CacheSet(c, fh, barr)]

(* ------------------------------ metadata ------------------------------- *)
\* SELECT id FROM telegram_messages WHERE inode = fh (integer primary key order)
msg_ids(T, fh) == SortedSeq({r.id : r \in {x \in T : x.inode = fh}})

Snapshot(I, C, T) == [inodes |-> I, contents |-> C, telegram_messages |-> T]

\* a getattr that does not count the contents rows: st_nlink is 1
getattr_db_one_link(I, C, inode) ==
    IF inode \in DOMAIN I
    THEN [err |-> "OK", st_ino |-> inode, st_mode |-> I[inode].mode,
          st_nlink |-> 1, st_size |-> I[inode].size]
    ELSE [err |-> "ENOENT", st_ino |-> inode, st_mode |-> "", st_nlink |-> 0, st_size |-> 0]

\* getattr on the tables I, C
getattr_db(I, C, inode) ==
    IF inode \in DOMAIN I
    THEN [err |-> "OK", st_ino |-> inode, st_mode |-> I[inode].mode,
          st_nlink |-> Cardinality({r \in C : r.inode = inode}),
          st_size |-> I[inode].size]
    ELSE [err |-> "ENOENT", st_ino |-> inode, st_mode |-> "", st_nlink |-> 0, st_size |-> 0]

getattr(inode) == getattr_db(inodes, contents, inode)

\* lookup; a bytes name never equals the str '.' or '..', so every name is
\* looked up in contents
lookup_db(I, C, inode_p, name) ==
    LET rows == {r \in C : r.name = name /\ r.parent_inode = inode_p}
    IN IF rows = {}
       THEN [err |-> "ENOENT", st_ino |-> 0, st_mode |-> "", st_nlink |-> 0, st_size |-> 0]
       ELSE getattr_db(I, C, (CHOOSE r \in rows : TRUE).inode)

lookup(inode_p, name) == lookup_db(inodes, contents, inode_p, name)

\* a count that skips the query: no ENOTEMPTY check
children_skipped(C, i) == 0

\* a count that is one short: a directory with one entry passes for empty
children_but_one(C, i) == Cardinality({r \in C : r.parent_inode = i}) - 1

\* SELECT COUNT(inode) FROM contents WHERE parent_inode = i
children(C, i) == Cardinality({r \in C : r.parent_inode = i})

\* get_telegram_data: [data, cache, cached]; cached: data is the cache's object
get_telegram_data(fh, net) ==
    LET g == get_cached_file(cached_files, fh)
        ids == msg_ids(telegram_messages, fh)
    IN IF g.hit THEN [data |-> g.val, cache |-> g.cache, cached |-> TRUE]
       ELSE IF ids = <<>> THEN [data |-> <<>>, cache |-> g.cache, cached |-> FALSE]
       ELSE LET d == download_file(g.cache, fh, ids, net)
            IN [data |-> d.val, cache |-> d.cache, cached |-> ~d.err]

Ret(err, val) == [err |-> err, val |-> val]

(* -------------------------------- Init --------------------------------- *)
\* the object after __init__ created the tables (init_tables) on a new channel
Init ==
    /\ inodes = (ROOT_INODE :> [mode |-> S_IFDIR, size |-> 0])
    /\ contents = {[rowid |-> 1, name |-> "..", inode |-> ROOT_INODE,
                    parent_inode |-> ROOT_INODE]}
    /\ seq = 1
    /\ telegram_messages = {}
    /\ committed = Snapshot(inodes, contents, telegram_messages)
    /\ inode_open_count = <<>>
    /\ write_buffer = <<>>
    /\ wb_alias = None
    /\ cached_files = <<>>
    /\ channel = <<>>
    /\ next_msg_id = 1
    /\ ret = Ret("OK", <<>>)
    /\ flushed = <<>>
    /\ trip = [fh |-> None, B |-> <<>>, at |-> "none"]
    /\ listing = [dir |-> None, off |-> 0, out |-> <<>>, done |-> FALSE]


(* ------------------------------ upcalls -------------------------------- *)
\* the object after an upcall: one value per field
Post(I, C, S, T, K, OC, WB, AL, CF, CH, NM, R) ==
    /\ inodes' = I
    /\ contents' = C
    /\ seq' = S
    /\ telegram_messages' = T
    /\ committed' = K
    /\ inode_open_count' = OC
    /\ write_buffer' = WB
    /\ wb_alias' = AL
    /\ cached_files' = CF
    /\ channel' = CH
    /\ next_msg_id' = NM
    /\ ret' = R

\* an upcall that raises before it changed anything
Raise(err) ==
    Post(inodes, contents, seq, telegram_messages, committed, inode_open_count,
         write_buffer, wb_alias, cached_files, channel, next_msg_id, Ret(err, <<>>))

\* an upcall that only touched the tables I, C, T and did not reach db.commit()
RaiseDb(err, I, C, T) ==
    Post(I, C, seq, T, committed, inode_open_count,
         write_buffer, wb_alias, cached_files, channel, next_msg_id, Ret(err, <<>>))

\* the write buffer is still the cached object only while the cache holds it
KeepAlias(al, c) == IF al # None /\ CacheHas(c, al) THEN al ELSE None

\* inode_open_count[inode] += 1 on the defaultdict
IncOpen(OC, inode) ==
    IF inode \in DOMAIN OC THEN [OC EXCEPT ![inode] = @ + 1] ELSE OC @@ (inode :> 1)

\* a WHERE name=? AND parent_inode=? that matches no row
entry_rows_none(C, inode_p, name) == {}

\* the row (name, parent_inode)
entry_rows(C, inode_p, name) == {r \in C : r.name = name /\ r.parent_inode = inode_p}

\* _create, and create's increment of the open count when opened
_create(inode_p, name, mode, opened) ==
    LET p == getattr(inode_p)
        inode == MaxOf(DOMAIN inodes \cup {0}) + 1
        I1 == inodes @@ (inode :> [mode |-> mode, size |-> 0])
        C1 == contents \cup {[rowid |-> seq + 1, name |-> name, inode |-> inode,
                              parent_inode |-> inode_p]}
    IN IF p.err # "OK" THEN Raise("ENOENT")
       ELSE IF p.st_nlink = 0 THEN Raise("EINVAL")
       ELSE IF entry_rows(contents, inode_p, name) # {}
       THEN \* the inode row is inserted, the contents INSERT raises
            RaiseDb("IntegrityError", I1, contents, telegram_messages)
       ELSE Post(I1, C1, seq + 1, telegram_messages,
                 Snapshot(I1, C1, telegram_messages),
                 IF opened THEN IncOpen(inode_open_count, inode) ELSE inode_open_count,
                 write_buffer, wb_alias, cached_files, channel, next_msg_id,
                 Ret("OK", <<>>))

create(inode_parent, name) == _create(inode_parent, name, S_IFREG, TRUE)

mknod(inode_p, name) == _create(inode_p, name, S_IFREG, FALSE)

mkdir(inode_p, name) == _create(inode_p, name, S_IFDIR, FALSE)

symlink(inode_p, name) == _create(inode_p, name, S_IFLNK, FALSE)

open(inode) ==
    Post(inodes, contents, seq, telegram_messages, committed,
         IncOpen(inode_open_count, inode),
         write_buffer, wb_alias, cached_files, channel, next_msg_id,
         Ret("OK", <<>>))

link(inode, new_inode_p, new_name) ==
    LET entry_p == getattr(new_inode_p)
        C1 == contents \cup {[rowid |-> seq + 1, name |-> new_name, inode |-> inode,
                              parent_inode |-> new_inode_p]}
    IN IF entry_p.err # "OK" THEN Raise("ENOENT")
       ELSE IF entry_p.st_nlink = 0 THEN Raise("EINVAL")
       ELSE IF entry_rows(contents, new_inode_p, new_name) # {}
       THEN Raise("IntegrityError")
       ELSE Post(inodes, C1, seq + 1, telegram_messages,
                 Snapshot(inodes, C1, telegram_messages), inode_open_count,
                 write_buffer, wb_alias, cached_files, channel, next_msg_id,
                 Ret(getattr_db(inodes, C1, inode).err, <<>>))

\* _remove, for unlink and rmdir
_remove(inode_p, name, entry, net) ==
    LET ids == {r.id : r \in {x \in telegram_messages : x.inode = entry.st_ino}}
        closed == entry.st_ino \notin DOMAIN inode_open_count
        I1 == Restrict(inodes, DOMAIN inodes \ {entry.st_ino})
        C1 == contents \ entry_rows(contents, inode_p, name)
        T1 == {r \in telegram_messages : r.inode # entry.st_ino}
    IN IF children(contents, entry.st_ino) > 0 THEN Raise("ENOTEMPTY")
       ELSE IF entry.st_nlink = 1 /\ closed
       THEN IF ~net /\ ids # {}
            THEN \* the inode row is deleted, delete_messages raises
                 RaiseDb("RemoteError", I1, contents, telegram_messages)
            ELSE Post(I1, C1, seq, T1, Snapshot(I1, C1, T1), inode_open_count,
                      write_buffer, wb_alias, cached_files,
                      delete_messages(channel, ids), next_msg_id, Ret("OK", <<>>))
       ELSE IF entry.st_nlink > 1 /\ closed
       THEN Post(inodes, C1, seq, telegram_messages,
                 Snapshot(inodes, C1, telegram_messages), inode_open_count,
                 write_buffer, wb_alias, cached_files, channel, next_msg_id,
                 Ret("OK", <<>>))
       ELSE \* neither branch: only db.commit()
            Post(inodes, contents, seq, telegram_messages,
                 Snapshot(inodes, contents, telegram_messages), inode_open_count,
                 write_buffer, wb_alias, cached_files, channel, next_msg_id,
                 Ret("OK", <<>>))

unlink(inode_p, name, net) ==
    LET entry == lookup(inode_p, name)
    IN IF entry.err # "OK" THEN Raise("ENOENT")
       ELSE IF entry.st_mode = S_IFDIR THEN Raise("EISDIR")
       ELSE _remove(inode_p, name, entry, net)

rmdir(inode_p, name, net) ==
    LET entry == lookup(inode_p, name)
    IN IF entry.err # "OK" THEN Raise("ENOENT")
       ELSE IF entry.st_mode # S_IFDIR THEN Raise("ENOTDIR")
       ELSE _remove(inode_p, name, entry, net)

\* _replace: rename over an existing destination
_replace(inode_p_old, name_old, inode_p_new, name_new, entry_old, entry_new, net) ==
    LET ids == {r.id : r \in {x \in telegram_messages : x.inode = entry_new.st_ino}}
        C1 == {IF r.name = name_new /\ r.parent_inode = inode_p_new
               THEN [r EXCEPT !.inode = entry_old.st_ino] ELSE r : r \in contents}
        C2 == C1 \ entry_rows(C1, inode_p_old, name_old)
        I1 == Restrict(inodes, DOMAIN inodes \ {entry_new.st_ino})
    IN IF children(contents, entry_new.st_ino) > 0 THEN Raise("ENOTEMPTY")
       ELSE IF entry_new.st_nlink = 1 /\ entry_new.st_ino \notin DOMAIN inode_open_count
       THEN IF ~net /\ ids # {}
            THEN RaiseDb("RemoteError", I1, C2, telegram_messages)
            ELSE Post(I1, C2, seq, telegram_messages,
                      Snapshot(I1, C2, telegram_messages), inode_open_count,
                      write_buffer, wb_alias, cached_files,
                      delete_messages(channel, ids), next_msg_id,
                      Ret("OK", <<>>))
       ELSE Post(inodes, C2, seq, telegram_messages,
                 Snapshot(inodes, C2, telegram_messages), inode_open_count,
                 write_buffer, wb_alias, cached_files, channel, next_msg_id,
                 Ret("OK", <<>>))

rename(inode_p_old, name_old, inode_p_new, name_new, flags, net) ==
    LET entry_old == lookup(inode_p_old, name_old)
        entry_new == lookup(inode_p_new, name_new)
        C1 == {IF r.name = name_old /\ r.parent_inode = inode_p_old
               THEN [r EXCEPT !.name = name_new, !.parent_inode = inode_p_new]
               ELSE r : r \in contents}
    IN IF flags # 0 THEN Raise("EINVAL")
       ELSE IF entry_old.err # "OK" THEN Raise("ENOENT")
       ELSE IF entry_new.err = "OK"
       THEN _replace(inode_p_old, name_old, inode_p_new, name_new,
                     entry_old, entry_new, net)
       ELSE IF entry_rows(contents, inode_p_new, name_new) # {}
       THEN \* the destination row exists but its inode row is gone: UNIQUE fails
            Raise("IntegrityError")
       ELSE Post(inodes, C1, seq, telegram_messages,
                 Snapshot(inodes, C1, telegram_messages), inode_open_count,
                 write_buffer, wb_alias, cached_files, channel, next_msg_id,
                 Ret("OK", <<>>))

\* setattr; attr carries st_size and st_mode, fh is the open handle or None.
\* fields is "update_size" (truncate), "update_mode" (chmod) or another field
\* (chown, utimens: UPDATEs of columns not kept here); every call ends in
\* db.commit()
setattr(inode, attr, fields, fh, net) ==
    LET sized == fields = "update_size"
        g == get_telegram_data(fh, net)
        I1 == IF inode \notin DOMAIN inodes THEN inodes
              ELSE IF sized THEN [inodes EXCEPT ![inode].size = attr.st_size]
              ELSE IF fields = "update_mode"
              THEN [inodes EXCEPT ![inode].mode = attr.st_mode]
              ELSE inodes
        c1 == IF sized THEN g.cache ELSE cached_files
    IN Post(I1, contents, seq, telegram_messages,
            Snapshot(I1, contents, telegram_messages), inode_open_count,
            write_buffer, KeepAlias(wb_alias, c1), c1, channel, next_msg_id,
            Ret(getattr_db(I1, contents, inode).err, <<>>))

read(fh, offset, length, net) ==
    LET g == get_telegram_data(fh, net)
    IN IF fh \notin DOMAIN inodes THEN Raise("NoSuchRowError")
       ELSE Post(inodes, contents, seq, telegram_messages, committed, inode_open_count,
                 write_buffer, KeepAlias(wb_alias, g.cache), g.cache, channel,
                 next_msg_id,
                 Ret("OK", Slice(g.data, offset, offset + length)))

\* write: result_bytes is the buffer, or, when the buffer is empty, the
\* object get_telegram_data returns (the cached bytearray itself on a hit or
\* after a download); "+=" changes that object in place
write(fh, offset, buf, net) ==
    LET seeded == write_buffer = <<>>
        g == get_telegram_data(fh, net)
        result_bytes == IF seeded THEN g.data ELSE write_buffer
        c1 == IF seeded THEN g.cache ELSE cached_files
        al == IF seeded THEN (IF g.cached THEN fh ELSE None)
              ELSE KeepAlias(wb_alias, cached_files)
    IN IF seeded /\ fh \notin DOMAIN inodes THEN Raise("NoSuchRowError")
       ELSE IF offset = Len(result_bytes)
       THEN Post(inodes, contents, seq, telegram_messages, committed, inode_open_count,
                 result_bytes \o buf, al,
                 IF al # None THEN CacheMutate(c1, al, result_bytes \o buf) ELSE c1,
                 channel, next_msg_id, Ret("OK", <<Len(buf)>>))
       ELSE Post(inodes, contents, seq, telegram_messages, committed, inode_open_count,
                 Slice(result_bytes, 0, offset) \o buf
                     \o Slice(result_bytes, offset + Len(buf), Len(result_bytes)),
                 None, c1, channel, next_msg_id, Ret("OK", <<Len(buf)>>))

\* an upload that raises and deletes the old messages all the same
upload_failed_deleting(ch, old) == delete_messages(ch, old)

\* the channel ch a flush leaves when one of its remote calls raised: the
\* messages old, mapped to the inode before, are not deleted (either
\* delete_msgs_for_inode, which follows the upload, is not reached, or its
\* delete_messages is the call that raised)
upload_failed(ch, old) == ch

\* the channel after upload_file sent the first k chunks of file_bytes
upload_part(file_bytes, k) ==
    LET chunks == upload_chunks(file_bytes)
    IN [m \in DOMAIN channel \cup {next_msg_id + i - 1 : i \in 1..k} |->
           IF m \in DOMAIN channel THEN channel[m] ELSE chunks[m - next_msg_id + 1]]

\* the remote calls a release(fh) makes, each of which can raise: the send of
\* every chunk, then delete_messages if the inode has mapped messages
remote_calls(fh) ==
    IF Len(write_buffer) > 0 /\ Cardinality({r \in contents : r.inode = fh}) = 1
    THEN Len(upload_chunks(write_buffer))
         + (IF \E r \in telegram_messages : r.inode = fh THEN 1 ELSE 0)
    ELSE 0

\* release whose first ok remote calls get through and whose next one, if
\* there is one, raises.  The flush raises where the code raises: get_row on
\* the name (no row, or more than one), a send, or delete_messages
release_calls(fh, ok) ==
    LET OC1 == IF fh \in DOMAIN inode_open_count
               THEN [inode_open_count EXCEPT ![fh] = @ - 1]
               ELSE inode_open_count @@ (fh :> -1)
        OC2 == Restrict(OC1, DOMAIN OC1 \ {fh})
        flush == Len(write_buffer) > 0
        data == write_buffer
        names == {r \in contents : r.inode = fh}
        cf1 == CacheRemove(cached_files, fh)
        old == {r.id : r \in {x \in telegram_messages : x.inode = fh}}
        ids == upload_ids(data)
        sent == Min(ok, Len(ids))
        T1 == {r \in telegram_messages : r.inode # fh}
                  \cup {[id |-> ids[i], inode |-> fh] : i \in DOMAIN ids}
        I1 == IF fh \in DOMAIN inodes
              THEN [inodes EXCEPT ![fh].size = Len(data)] ELSE inodes
        \* the tables, the cache and the channel after the flush, if any
        I2 == IF flush THEN I1 ELSE inodes
        T2 == IF flush THEN T1 ELSE telegram_messages
        K2 == IF flush THEN Snapshot(I2, contents, T2) ELSE committed
        CF2 == IF flush THEN cf1 ELSE cached_files
        CH2 == IF flush THEN delete_messages(upload_channel(data), old) ELSE channel
        NM2 == IF flush THEN next_msg_id + Len(ids) ELSE next_msg_id
        AL2 == IF flush THEN None ELSE wb_alias
        I3 == Restrict(I2, DOMAIN I2 \ {fh})
    IN IF flush /\ Cardinality(names) # 1
       THEN Post(inodes, contents, seq, telegram_messages, committed, OC1,
                 <<>>, None, cached_files, channel, next_msg_id,
                 Ret(IF names = {} THEN "NoSuchRowError"
                                ELSE "NoUniqueValueError", <<>>))
       ELSE IF flush /\ ok < remote_calls(fh)
       THEN \* upload_file evicted fh from the cache and sent the chunks that
            \* got through, then a call raised
            Post(inodes, contents, seq, telegram_messages, committed, OC1,
                 <<>>, None, cf1, upload_failed(upload_part(data, sent), old),
                 next_msg_id + sent, Ret("RemoteError", <<>>))
       ELSE IF OC1[fh] # 0
       THEN Post(I2, contents, seq, T2, K2, OC1, <<>>, AL2, CF2, CH2, NM2,
                 Ret("OK", <<>>))
       ELSE IF fh \notin DOMAIN I2
       THEN Post(I2, contents, seq, T2, K2, OC2, <<>>, AL2, CF2, CH2, NM2,
                 Ret("ENOENT", <<>>))
       ELSE IF getattr_db(I2, contents, fh).st_nlink = 0
       THEN Post(I3, contents, seq, T2, Snapshot(I3, contents, T2), OC2,
                 <<>>, AL2, CF2, CH2, NM2, Ret("OK", <<>>))
       ELSE Post(I2, contents, seq, T2, K2, OC2, <<>>, AL2, CF2, CH2, NM2,
                 Ret("OK", <<>>))

\* release; net: whether every remote call gets through.  If not, any one of
\* them is the call that raises; a release that makes none is not affected
release(fh, net) ==
    \E ok \in 0..remote_calls(fh) :
        /\ (ok = remote_calls(fh)) = (net \/ remote_calls(fh) = 0)
        /\ release_calls(fh, ok)

\* the message ids a release(fh) can take from the channel: none if it
\* uploads nothing (empty buffer, or get_row on the name raises)
upload_count(fh) ==
    IF remote_calls(fh) = 0 THEN 0 ELSE Len(upload_chunks(write_buffer))

\* SELECT * FROM contents WHERE parent_inode=? AND rowid > ? ORDER BY rowid
readdir_rows(C, inode, off) ==
    LET rows == {r \in C : r.parent_inode = inode /\ r.rowid > off}
        order == SortedSeq({r.rowid : r \in rows})
    IN [k \in DOMAIN order |-> CHOOSE r \in rows : r.rowid = order[k]]

\* readdir: one readdir_reply(token, name, attr, next_id) call for every row
\* past the offset, whatever the calls return; ret.val lists the calls made.
\* getattr of a row whose inode is gone raises after the calls before it
readdir(inode, off) ==
    LET rows == readdir_rows(contents, inode, IF off = 0 THEN -1 ELSE off)
        gone == {k \in DOMAIN rows : rows[k].inode \notin DOMAIN inodes}
        first == IF gone = {} THEN Len(rows)
                 ELSE (CHOOSE k \in gone : \A j \in gone : k <= j) - 1
    IN Post(inodes, contents, seq, telegram_messages, committed, inode_open_count,
            write_buffer, wb_alias, cached_files, channel, next_msg_id,
            Ret(IF gone = {} THEN "OK" ELSE "ENOENT",
                [k \in 1..first |->
                    [name |-> rows[k].name, st_ino |-> rows[k].inode,
                     next_id |-> rows[k].rowid]]))

\* the bytes an entry takes in the reply buffer (fuse_add_direntry_plus): the
\* entry's header and the name, padded to 8 bytes
entry_size(name) == 152 + 8 * ((Len(name) + 7) \div 8)

\* the calls of readdir_reply that returned True on a token with size bytes
\* left: a call whose entry does not fit returns False and leaves the buffer
\* as it is, and the calls after it are tried the same way
RECURSIVE readdir_reply(_, _)
readdir_reply(calls, size) ==
    IF calls = <<>> THEN <<>>
    ELSE IF entry_size(Head(calls).name) > size
    THEN readdir_reply(Tail(calls), size)
    ELSE <<Head(calls)>> \o readdir_reply(Tail(calls), size - entry_size(Head(calls).name))

(* ------------------------------ history -------------------------------- *)
\* the flushes recorded, f, kept for the inodes that still exist
Flushed(f) == flushed' = Restrict(f, DOMAIN f \cap DOMAIN inodes')

\* an upcall other than release: no flush, no step of the round trip
NoFlush == Flushed(flushed) /\ UNCHANGED <<trip, listing>>

\* release(fh) uploaded the write buffer iff the channel gave out message ids
\* and no remote call raised
Flush(fh) ==
    Flushed(IF next_msg_id' > next_msg_id /\ ret'.err # "RemoteError"
            THEN [i \in DOMAIN flushed \cup {fh} |->
                     IF i = fh THEN write_buffer ELSE flushed[i]]
            ELSE flushed)

(* --------------------------- the upcalls' inputs ----------------------- *)
\* the kernel names directories it has looked up as parents
Dirs == {i \in DOMAIN inodes : inodes[i].mode = S_IFDIR}

\* inodes that are not directories: what open, link and setattr are called on
Files == {i \in DOMAIN inodes : inodes[i].mode # S_IFDIR}

\* handles the kernel holds: opened and not yet released
Handles == {i \in DOMAIN inode_open_count : inode_open_count[i] > 0}

CanCreate == MaxOf(DOMAIN inodes \cup {0}) + 1 <= MaxInode /\ seq + 1 <= MaxRowid

Bufs == {<<b>> : b \in Bytes}

Create == \E p \in Dirs, n \in Names : CanCreate /\ create(p, n) /\ NoFlush

Mknod == \E p \in Dirs, n \in Names : CanCreate /\ mknod(p, n) /\ NoFlush

Mkdir == \E p \in Dirs, n \in Names : CanCreate /\ mkdir(p, n) /\ NoFlush

Symlink == \E p \in Dirs, n \in Names : CanCreate /\ symlink(p, n) /\ NoFlush

Open ==
    \E i \in Files :
        /\ (IF i \in DOMAIN inode_open_count THEN inode_open_count[i] ELSE 0) < MaxOpen
        /\ open(i)
        /\ NoFlush

Link == \E i \in Files, p \in Dirs, n \in Names : seq + 1 <= MaxRowid /\ link(i, p, n) /\ NoFlush

\* Nets: whether the remote calls of the upcall get through
Unlink(Nets) == \E p \in Dirs, n \in Names, net \in Nets : unlink(p, n, net) /\ NoFlush

Rmdir(Nets) == \E p \in Dirs, n \in Names, net \in Nets : rmdir(p, n, net) /\ NoFlush

\* rename of one entry onto another entry or onto a free name
Rename(Nets) ==
    \E p1 \in Dirs, n1 \in Names, p2 \in Dirs, n2 \in Names,
       flags \in {0, 1}, net \in Nets :
        /\ <<p1, n1>> # <<p2, n2>>
        /\ rename(p1, n1, p2, n2, flags, net)
        /\ NoFlush

\* rename of an entry onto itself (the kernel's VFS answers it without an upcall)
RenameSelf(Nets) ==
    \E p \in Dirs, n \in Names, net \in Nets : rename(p, n, p, n, 0, net) /\ NoFlush

\* truncate of a file, by path or through its handle; chmod of any inode, the
\* mode keeping the file type the inode has (chown and utimens have the same
\* successors)
Setattr(Nets) ==
    \/ \E i \in Files, size \in 0..MaxBuf, fh \in {None} \cup Handles, net \in Nets :
          /\ fh \in {None, i}
          /\ setattr(i, [st_size |-> size, st_mode |-> inodes[i].mode],
                     "update_size", fh, net)
          /\ NoFlush
    \/ \E i \in DOMAIN inodes, net \in Nets :
          /\ setattr(i, [st_size |-> inodes[i].size, st_mode |-> inodes[i].mode],
                     "update_mode", None, net)
          /\ NoFlush

Read(Nets) ==
    \E fh \in Handles, offset \in 0..1, length \in 1..MaxBuf, net \in Nets :
        read(fh, offset, length, net) /\ NoFlush

Write(Nets) ==
    \E fh \in Handles, offset \in 0..MaxBuf, buf \in Bufs, net \in Nets :
        /\ write(fh, offset, buf, net)
        /\ Len(write_buffer') <= MaxBuf
        /\ NoFlush

Release(Nets) ==
    \E fh \in Handles, net \in Nets :
        /\ next_msg_id + upload_count(fh) - 1 <= MaxMsgId
        /\ release(fh, net)
        /\ Flush(fh)
        /\ UNCHANGED <<trip, listing>>

\* every upcall, the remote calls getting through or not
Next ==
    \/ Create \/ Mknod \/ Mkdir \/ Symlink \/ Open \/ Link
    \/ Unlink(BOOLEAN) \/ Rmdir(BOOLEAN) \/ Rename(BOOLEAN) \/ RenameSelf(BOOLEAN)
    \/ Setattr(BOOLEAN) \/ Read(BOOLEAN) \/ Write(BOOLEAN) \/ Release(BOOLEAN)

Spec == Init /\ [][Next]_vars

\* an upcall that returns without raising
Returns(Upcall) == Upcall /\ ret'.err = "OK"

\* the namespace upcalls that return without raising
NextMeta ==
    \/ Returns(Create) \/ Returns(Mknod) \/ Returns(Mkdir) \/ Returns(Symlink)
    \/ Returns(Open) \/ Returns(Link)
    \/ Returns(Unlink({TRUE})) \/ Returns(Rmdir({TRUE})) \/ Returns(Rename({TRUE}))
    \/ Returns(RenameSelf({TRUE})) \/ Returns(Release({TRUE}))

SpecMeta == Init /\ [][NextMeta]_vars

\* the same, and the creating upcalls that raise
NextNs == NextMeta \/ Create \/ Mknod \/ Mkdir \/ Symlink

SpecNs == Init /\ [][NextNs]_vars

\* an upcall that got past the lookup of its entry and the check of its
\* flags: it returns, or raises something other than ENOENT and EINVAL
Refused(Upcall) == Upcall /\ ret'.err \notin {"ENOENT", "EINVAL"}

\* directories and files with content; rmdir and rename, refused or not
NextDirs ==
    \/ Returns(Create) \/ Returns(Mkdir)
    \/ Returns(Write({TRUE})) \/ Returns(Release({TRUE}))
    \/ Refused(Rmdir({TRUE})) \/ Refused(Rename({TRUE}))

SpecDirs == Init /\ [][NextDirs]_vars

\* the tree is the root directory holding regular files
Flat ==
    /\ \A i \in DOMAIN inodes : i # ROOT_INODE => inodes[i].mode = S_IFREG
    /\ \A r \in contents :
          /\ r.parent_inode = ROOT_INODE
          /\ (r.name = "..") = (r.rowid = 1)
          /\ (r.inode = ROOT_INODE) = (r.rowid = 1)
    /\ \E r \in contents : r.rowid = 1

\* an upcall on regular files in the root directory that returns without raising
OnFiles(Upcall) == Returns(Upcall) /\ Flat'

\* the upcalls on regular files in the root directory that return without
\* raising, the remote calls getting through
NextData ==
    \/ OnFiles(Create) \/ OnFiles(Mknod) \/ OnFiles(Open) \/ OnFiles(Link)
    \/ OnFiles(Unlink({TRUE})) \/ OnFiles(Rename({TRUE}))
    \/ OnFiles(Setattr({TRUE})) \/ OnFiles(Read({TRUE})) \/ OnFiles(Write({TRUE}))
    \/ OnFiles(Release({TRUE}))

SpecData == Init /\ [][NextData]_vars

\* the same, and the releases that raise
NextFs == NextData \/ Release({TRUE})

SpecFs == Init /\ [][NextFs]_vars

\* the same as NextData, and the releases whose remote calls fail
NextUp == NextData \/ Release({FALSE})

SpecUp == Init /\ [][NextUp]_vars

(* ---------------------------- the round trip --------------------------- *)
\* create of a fresh file in the root directory: the round trip starts
TripCreate ==
    \E n \in Names :
        /\ CanCreate
        /\ create(ROOT_INODE, n)
        /\ ret'.err = "OK"
        /\ Flushed(flushed)
        /\ trip' = [fh |-> MaxOf(DOMAIN inodes) + 1, B |-> <<>>, at |-> "write"]
        /\ UNCHANGED listing

\* the next of the consecutive writes, at the offset the bytes written end at
TripWrite ==
    \E buf \in Bufs :
        /\ trip.at = "write"
        /\ Len(trip.B) < BigLen
        /\ write(trip.fh, Len(trip.B), buf, TRUE)
        /\ Flushed(flushed)
        /\ trip' = [trip EXCEPT !.B = @ \o buf]
        /\ UNCHANGED listing

TripRelease ==
    /\ trip.at = "write"
    /\ trip.B # <<>>
    /\ next_msg_id + upload_count(trip.fh) - 1 <= BigMsgId
    /\ release(trip.fh, TRUE)
    /\ ret'.err = "OK"
    /\ Flush(trip.fh)
    /\ trip' = [trip EXCEPT !.at = "open"]
    /\ UNCHANGED listing

TripOpen ==
    /\ trip.at = "open"
    /\ open(trip.fh)
    /\ Flushed(flushed)
    /\ trip' = [trip EXCEPT !.at = "read"]
    /\ UNCHANGED listing

\* read(fh, 0, len(B))
TripRead ==
    /\ trip.at = "read"
    /\ read(trip.fh, 0, Len(trip.B), TRUE)
    /\ Flushed(flushed)
    /\ trip' = [trip EXCEPT !.at = "done"]
    /\ UNCHANGED listing

NextTrip == TripCreate \/ TripWrite \/ TripRelease \/ TripOpen \/ TripRead

SpecTrip == Init /\ [][NextTrip]_vars

\* C1: after create of a fresh file, consecutive writes of the bytes B from
\* offset 0 through its handle, release and a re-open, with no other handle
\* written or released in between, read(fh, 0, len(B)) returns exactly B.
C1_RoundTrip == trip.at = "done" => ret.val = trip.B

\* after the read, a further write at the end of the content read: the handle
\* is written again
TripAppend ==
    \E buf \in Bufs :
        /\ trip.at = "done"
        /\ Len(trip.B) < BigLen
        /\ write(trip.fh, Len(trip.B), buf, TRUE)
        /\ Flushed(flushed)
        /\ trip' = [trip EXCEPT !.B = @ \o buf, !.at = "write"]
        /\ UNCHANGED listing

NextAppend == NextTrip \/ TripAppend

SpecAppend == Init /\ [][NextAppend]_vars

(* ------------------------- two handles, one written -------------------- *)
\* the one file that is written: created once
FirstCreate == trip.at = "none" /\ TripCreate

\* release of a handle other than the written one; no write went through it
ReleaseOther ==
    \E fh \in Handles \ {trip.fh} :
        /\ next_msg_id + upload_count(fh) - 1 <= BigMsgId
        /\ release(fh, TRUE)
        /\ Flush(fh)
        /\ UNCHANGED <<trip, listing>>

NextTwo == Returns(Create) \/ FirstCreate \/ TripWrite \/ ReleaseOther \/ TripRelease

SpecTwo == Init /\ [][NextTwo]_vars

(* ------------------------- listing a directory ------------------------- *)
\* names of one and of two 8-byte units
DirNames == {"a", "a_longer_name"}

\* the next readdir of the listing: the first one has offset 0, the later ones
\* the next_id of the last entry returned; the kernel stops at an empty reply
Readdir ==
    \E inode \in Dirs :
        /\ ~listing.done
        /\ listing.dir \in {None, inode}
        /\ readdir(inode, listing.off)
        /\ LET got == IF ret'.err = "OK" THEN readdir_reply(ret'.val, ReplySize)
                       ELSE <<>>
           IN listing' = [dir |-> inode,
                          off |-> IF got = <<>> THEN listing.off
                                  ELSE got[Len(got)].next_id,
                          out |-> listing.out \o got,
                          done |-> got = <<>>]
        /\ Flushed(flushed)
        /\ UNCHANGED trip

ListMknod == \E n \in DirNames : CanCreate /\ mknod(ROOT_INODE, n) /\ NoFlush

ListUnlink == \E n \in DirNames : unlink(ROOT_INODE, n, TRUE) /\ NoFlush

ListRename ==
    \E n1 \in DirNames, n2 \in DirNames :
        n1 # n2 /\ rename(ROOT_INODE, n1, ROOT_INODE, n2, 0, TRUE) /\ NoFlush

NextList ==
    \/ Returns(ListMknod) \/ Returns(ListUnlink) \/ Returns(ListRename)
    \/ Returns(Readdir)

SpecList == Init /\ [][NextList]_vars

(* ------------------------------ properties ----------------------------- *)
\* the tables as the connection sees them
View == Snapshot(inodes, contents, telegram_messages)

\* the inode rows a step deletes
Destroyed == DOMAIN inodes \ DOMAIN inodes'

\* the payloads of inode i's mapped messages, concatenated in insertion order
Payload(i) ==
    LET ids == msg_ids(telegram_messages, i)
    IN ConcatAll([k \in DOMAIN ids |-> channel[ids[k]]])

\* C2: unlink(parent, name) of a file whose inode is in the open-count map
\* removes the directory entry, so that a following lookup(parent, name) fails
\* with ENOENT, and keeps the inode row.
C2_UnlinkOpenRemovesEntry ==
    [][\A p \in Dirs, n \in Names :
          LET entry == lookup(p, n)
          IN (/\ entry.err = "OK"
              /\ entry.st_mode # S_IFDIR
              /\ entry.st_ino \in DOMAIN inode_open_count
              /\ unlink(p, n, TRUE)
              /\ ret'.err = "OK")
             => /\ lookup_db(inodes', contents', p, n).err = "ENOENT"
                /\ entry.st_ino \in DOMAIN inodes']_vars

\* C3: no inode row is deleted while its open count stays above 0, and a
\* release that brings the open count of an inode without directory entries
\* to 0 deletes the inode row, with an empty or a non-empty write buffer.
C3_DeferredDeletion ==
    [][/\ \A i \in Destroyed :
              ~(i \in DOMAIN inode_open_count' /\ inode_open_count'[i] > 0)
       /\ \A fh \in Handles :
              (/\ release(fh, TRUE)
               /\ inode_open_count[fh] = 1
               /\ fh \in DOMAIN inodes
               /\ getattr(fh).st_nlink = 0)
              => fh \notin DOMAIN inodes']_vars

\* C4: a step that deletes an inode row leaves none of the remote messages
\* mapped to that inode on the channel.
C4_MessagesDieWithInode ==
    [][\A i \in Destroyed : \A r \in telegram_messages :
          r.inode = i => r.id \notin DOMAIN channel']_vars

\* C5: a step that deletes an inode row leaves no cache entry under its id,
\* and a step that inserts an inode row leaves a file that reads as empty:
\* no cache entry under its id.
C5_CacheDiesWithInode ==
    [][/\ \A i \in Destroyed : ~CacheHas(cached_files', i)
       /\ \A i \in DOMAIN inodes' \ DOMAIN inodes : ~CacheHas(cached_files', i)]_vars

\* C6: every telegram_messages row references an existing inode row.
C6_MappingHasInode == \A r \in telegram_messages : r.inode \in DOMAIN inodes

\* C7: for every existing file inode the mapping rows are none, or name
\* messages that all exist on the channel and whose payloads, concatenated in
\* insertion order, are the bytes of the inode's last flush.
C7_MappingIsLastFlush ==
    \A i \in DOMAIN inodes :
        inodes[i].mode = S_IFREG =>
            \/ msg_ids(telegram_messages, i) = <<>>
            \/ /\ \A r \in telegram_messages : r.inode = i => r.id \in DOMAIN channel
               /\ i \in DOMAIN flushed
               /\ Payload(i) = flushed[i]

\* C8: every contents row's inode and parent_inode are rows of inodes.
C8_ContentsResolve ==
    \A r \in contents : r.inode \in DOMAIN inodes /\ r.parent_inode \in DOMAIN inodes

\* an entry renamed over: the row of the first file created names the inode of
\* the second, and the first file's inode row is deleted
C8_RenamedOver ==
    /\ 2 \notin DOMAIN inodes
    /\ \E r \in contents : r.rowid = 2 /\ r.inode = 3 /\ r.parent_inode \in Dirs

\* C9: no committed inode row has zero contents rows and is absent from the
\* open-count map.
C9_NoOrphanInode ==
    \A i \in DOMAIN committed.inodes :
        \/ \E r \in committed.contents : r.inode = i
        \/ i \in DOMAIN inode_open_count

\* C10: an upcall that raises leaves the tables as they were before it, the
\* tables the later upcalls see and the tables committed.
C10_FailedUpcallRollsBack ==
    [][ret'.err # "OK" => View' = View /\ committed' = committed]_vars

\* C11: a release(fh) whose upload fails leaves the remote messages mapped
\* to fh on the channel, and leaves the telegram_messages rows and the size
\* of fh, seen and committed, as they were.
C11_FailedUploadKeepsOld ==
    [][ret'.err = "RemoteError"
       => \A fh \in Handles :
          release(fh, FALSE)
          => /\ \A r \in telegram_messages :
                    (r.inode = fh /\ r.id \in DOMAIN channel)
                    => r.id \in DOMAIN channel' /\ channel'[r.id] = channel[r.id]
             /\ telegram_messages' = telegram_messages
             /\ inodes' = inodes
             /\ committed' = committed]_vars

\* a release of a file that has a stored message has just failed on its upload
C11_FailedOverStored ==
    /\ ret.err = "RemoteError"
    /\ \E r \in telegram_messages :
          /\ r.id \in DOMAIN channel
          /\ r.inode \in DOMAIN inode_open_count
          /\ inode_open_count[r.inode] = 0

\* what read(fh, offset, length) returns in a state
read_result(fh, offset, length) ==
    Slice(get_telegram_data(fh, TRUE).data, offset, offset + length)

\* C12: after setattr with update_size and st_size = S on a file, getattr
\* reports the size S, and a following read(fh, 0, n) through an open handle
\* of the file returns at most S bytes, for every n.
C12_Truncate ==
    [][\A i \in Files, S \in 0..MaxBuf, fh \in {None} \cup Handles :
          (/\ fh \in {None, i}
           /\ setattr(i, [st_size |-> S, st_mode |-> inodes[i].mode],
                      "update_size", fh, TRUE)
           /\ ret'.err = "OK")
          => /\ getattr_db(inodes', contents', i).st_size = S
             /\ i \in Handles =>
                    \A n \in 1..MaxBuf : Len(read_result(i, 0, n)') <= S]_vars

\* C13: after a successful rename(p1, n1, p2, n2) of one entry onto another
\* entry or onto a free name, lookup(p2, n2) yields the inode formerly at
\* (p1, n1), a read through it returns what it returned before, and
\* lookup(p1, n1) fails with ENOENT.
C13_RenamePreservesContent ==
    [][(/\ ret'.err = "OK"
        /\ contents' # contents
        /\ UNCHANGED <<seq, telegram_messages, inode_open_count, write_buffer,
                       wb_alias, cached_files, next_msg_id>>)
       => \A p1 \in Dirs, n1 \in Names :
             LET entry_old == lookup(p1, n1)
             IN entry_old.err = "OK"
                => \A p2 \in Dirs, n2 \in Names :
                      (<<p1, n1>> # <<p2, n2>> /\ rename(p1, n1, p2, n2, 0, TRUE))
                      => /\ lookup_db(inodes', contents', p2, n2).err = "OK"
                         /\ lookup_db(inodes', contents', p2, n2).st_ino
                                = entry_old.st_ino
                         /\ \A i \in DOMAIN inodes, n \in 1..MaxBuf :
                                i = entry_old.st_ino
                                => read_result(i, 0, n)' = read_result(i, 0, n)
                         /\ lookup_db(inodes', contents', p1, n1).err = "ENOENT"]_vars

\* the second file created, with stored content, has been renamed over the first
C13_StoredRenamedOver ==
    /\ 2 \notin DOMAIN inodes
    /\ \E r \in contents : r.rowid = 2 /\ r.inode = 3
    /\ \E m \in telegram_messages : m.inode = 3 /\ m.id \in DOMAIN channel

\* C14: a successful link(inode, p, n) on a file inode with st_nlink 1 makes
\* getattr of the inode report st_nlink 2; a successful unlink of one of the two
\* entries of a file inode leaves the other entry resolving to the same inode,
\* and the inode row, its mapping rows and its remote messages as they were.
C14_HardLinks ==
    [][/\ (ret'.err = "OK" /\ seq' = seq + 1)
          => \A i \in Files, p \in Dirs, n \in Names :
                (getattr(i).st_nlink = 1 /\ link(i, p, n))
                => getattr_db(inodes', contents', i).st_nlink = 2
       /\ (ret'.err = "OK" /\ UNCHANGED <<seq, inode_open_count, write_buffer>>)
          => \A p \in Dirs, n \in Names, p2 \in Dirs, n2 \in Names :
                LET entry == lookup(p, n)
                    other == lookup(p2, n2)
                IN (/\ <<p, n>> # <<p2, n2>>
                    /\ entry.err = "OK" /\ other.err = "OK"
                    /\ entry.st_ino = other.st_ino
                    /\ entry.st_mode # S_IFDIR
                    /\ entry.st_nlink = 2
                    /\ unlink(p, n, TRUE))
                   => \A i \in Files :
                         i = entry.st_ino
                         => /\ lookup_db(inodes', contents', p2, n2).err = "OK"
                            /\ lookup_db(inodes', contents', p2, n2).st_ino = i
                            /\ i \in DOMAIN inodes' /\ inodes'[i] = inodes[i]
                            /\ {r \in telegram_messages' : r.inode = i}
                                   = {r \in telegram_messages : r.inode = i}
                            /\ \A r \in telegram_messages :
                                   (r.inode = i /\ r.id \in DOMAIN channel)
                                   => /\ r.id \in DOMAIN channel'
                                      /\ channel'[r.id] = channel[r.id]]_vars

\* a closed file inode with stored content has two directory entries
C14_LinkedStored ==
    \E i \in Files :
        /\ getattr(i).st_nlink = 2
        /\ i \notin DOMAIN inode_open_count
        /\ \E m \in telegram_messages : m.inode = i /\ m.id \in DOMAIN channel

\* C15: in every state the inode row ROOT_INODE exists and so does the contents
\* row (name '..', parent_inode ROOT_INODE, inode ROOT_INODE), whatever entry
\* the upcalls named, the root's '..' included.
C15_RootKept ==
    /\ ROOT_INODE \in DOMAIN inodes
    /\ \E r \in contents :
          r.name = ".." /\ r.parent_inode = ROOT_INODE /\ r.inode = ROOT_INODE

\* the bytes the cache holds: the lengths of the stored bytearrays
RECURSIVE CacheBytes(_)
CacheBytes(c) == IF c = <<>> THEN 0 ELSE Len(Head(c).val) + CacheBytes(Tail(c))

\* C16: in every state the bytes the content cache holds are at most
\* CACHE_MAXSIZE, also between a write that seeds the write buffer from a
\* cached entry and appends to it, and the release that follows.
C16_CacheBounded == CacheBytes(cached_files) <= CACHE_MAXSIZE

\* C17: a rename whose source and destination both exist, one of them a
\* directory and the other a regular file (neither the root), fails and leaves
\* both entries and both inodes as they were.
C17_RenameAcrossTypes ==
    [][\A p1 \in Dirs, n1 \in Names, p2 \in Dirs, n2 \in Names :
          LET entry_old == lookup(p1, n1)
              entry_new == lookup(p2, n2)
          IN (/\ entry_old.err = "OK" /\ entry_new.err = "OK"
              /\ entry_old.st_ino # ROOT_INODE /\ entry_new.st_ino # ROOT_INODE
              /\ {entry_old.st_mode, entry_new.st_mode} = {S_IFDIR, S_IFREG}
              /\ rename(p1, n1, p2, n2, 0, TRUE))
             => /\ ret'.err # "OK"
                /\ contents' = contents
                /\ inodes' = inodes]_vars

\* C18: release(fh) with a non-empty write buffer, on an inode that has two or
\* more directory entries, completes the flush: it returns, the mapped remote
\* messages hold the buffer's content and inodes.size is the buffer's length.
C18_FlushOfLinked ==
    [][\A fh \in Handles :
          (/\ Len(write_buffer) > 0
           /\ getattr(fh).st_nlink >= 2
           /\ release(fh, TRUE))
          => /\ ret'.err = "OK"
             /\ Payload(fh)' = write_buffer
             /\ fh \in DOMAIN inodes' /\ inodes'[fh].size = Len(write_buffer)]_vars

\* C19: after write(fh, offset, buf) the buffer holds buf at
\* [offset, offset + len(buf)), every byte buffered before and outside that
\* range is unchanged, the buffer's length is max(old length, offset + len(buf)),
\* also for an offset beyond the old length, and the upcall returns len(buf).
C19_WriteAtOffset ==
    [][(ret'.err = "OK" /\ UNCHANGED <<contents, seq, telegram_messages, inode_open_count>>)
       => \A fh \in Handles, offset \in 0..MaxBuf, buf \in Bufs :
             LET old == IF write_buffer = <<>>
                        THEN get_telegram_data(fh, TRUE).data ELSE write_buffer
             IN write(fh, offset, buf, TRUE)
                => /\ Slice(write_buffer', offset, offset + Len(buf)) = buf
                   /\ \A k \in 1..Len(old) :
                         (k <= offset \/ k > offset + Len(buf))
                         => k <= Len(write_buffer') /\ write_buffer'[k] = old[k]
                   /\ Len(write_buffer') = MaxOf({Len(old), offset + Len(buf)})
                   /\ ret'.val = <<Len(buf)>>]_vars

\* C20: upload_file splits a payload of length len >= 1 (here the write buffer
\* a release hands to it) into exactly ceil(len / FILE_MAX_SIZE_BYTES) chunks,
\* chunk i being the bytes [i * MAX, min((i + 1) * MAX, len)); no chunk is
\* empty, there is one message id per chunk, in order, and the chunks
\* concatenated are the payload.
C20_UploadChunks ==
    Len(write_buffer) >= 1
    => LET len == Len(write_buffer)
           chunks == upload_chunks(write_buffer)
           ids == upload_ids(write_buffer)
       IN /\ Len(chunks) = (len + FILE_MAX_SIZE_BYTES - 1) \div FILE_MAX_SIZE_BYTES
          /\ \A i \in DOMAIN chunks :
                /\ chunks[i] = Slice(write_buffer, (i - 1) * FILE_MAX_SIZE_BYTES,
                                     Min(i * FILE_MAX_SIZE_BYTES, len))
                /\ chunks[i] # <<>>
          /\ Len(ids) = Len(chunks)
          /\ \A i \in DOMAIN ids : ids[i] = next_msg_id + i - 1
          /\ ConcatAll(chunks) = write_buffer

\* C21: in every state between upcalls, also after a release whose flush
\* raised, every key of the open-count map has a value above 0: an inode with
\* no outstanding open is not a key of the map.
C21_OpenCountPositive ==
    \A i \in DOMAIN inode_open_count : inode_open_count[i] > 0

\* C22: the readdir calls of one listing, the first with offset 0 and each
\* later one with the next_id of the last entry returned, return the entries in
\* strictly ascending rowid order, and when the listing ends every entry of the
\* directory has been returned: none twice, none skipped.
C22_ListingComplete ==
    [][(listing'.done /\ ~listing.done)
       => /\ \A j \in DOMAIN listing'.out, k \in DOMAIN listing'.out :
                j < k => listing'.out[j].next_id < listing'.out[k].next_id
          /\ \A r \in contents :
                r.parent_inode = listing'.dir
                => \E k \in DOMAIN listing'.out : listing'.out[k].next_id = r.rowid]_vars

\* C23: rmdir of a directory, and rename over a destination, whose inode is
\* the parent_inode of at least one contents row fails with ENOTEMPTY and
\* leaves inodes, contents, telegram_messages, the channel and the open-count
\* map as they were.
C23_NotEmpty ==
    [][UNCHANGED <<seq, write_buffer, next_msg_id>>
       => /\ \A p \in Dirs, n \in Names :
                LET entry == lookup(p, n)
                IN (/\ entry.err = "OK"
                    /\ entry.st_mode = S_IFDIR
                    /\ \E r \in contents : r.parent_inode = entry.st_ino
                    /\ rmdir(p, n, TRUE))
                   => /\ ret'.err = "ENOTEMPTY"
                      /\ UNCHANGED <<inodes, contents, telegram_messages, channel,
                                     inode_open_count>>
          /\ \A p1 \in Dirs, n1 \in Names :
                lookup(p1, n1).err = "OK"
                => \A p2 \in Dirs, n2 \in Names :
                      LET entry_new == lookup(p2, n2)
                      IN (/\ entry_new.err = "OK"
                          /\ \E r \in contents : r.parent_inode = entry_new.st_ino
                          /\ rename(p1, n1, p2, n2, 0, TRUE))
                         => /\ ret'.err = "ENOTEMPTY"
                            /\ UNCHANGED <<inodes, contents, telegram_messages,
                                           channel, inode_open_count>>]_vars

\* an upcall failed with ENOTEMPTY while a directory other than the root has an
\* entry and a file has stored content
C23_RefusedWithContent ==
    /\ ret.err = "ENOTEMPTY"
    /\ \E r \in contents : r.parent_inode # ROOT_INODE
    /\ \E m \in telegram_messages : m.id \in DOMAIN channel

\* C24: release(fh) stores to inode fh only bytes written through
\* write(fh, ...): the release of a handle no write went through, before the
\* release of the written handle, leaves its inode's size, message mapping and
\* remote content as they were, and the release of the written handle stores
\* the bytes written through it.
C24_OwnBytesOnly ==
    [][trip.at = "write"
       => \A fh \in Handles :
             /\ (fh # trip.fh /\ release(fh, TRUE))
                => /\ fh \in DOMAIN inodes' /\ inodes'[fh].size = inodes[fh].size
                   /\ {r \in telegram_messages' : r.inode = fh}
                          = {r \in telegram_messages : r.inode = fh}
                   /\ Payload(fh)' = Payload(fh)
             /\ (fh = trip.fh /\ trip.B # <<>> /\ release(fh, TRUE) /\ ret'.err = "OK")
                => Payload(fh)' = trip.B]_vars

\* C25: rename(p, n, p, n) of an existing entry onto itself, flags 0, leaves
\* the file intact: lookup(p, n) still succeeds with the same inode, and the
\* inode row, its mapping rows and its remote messages are still there.
C25_RenameOntoItself ==
    [][\A p \in Dirs, n \in Names :
          LET entry == lookup(p, n)
          IN (entry.err = "OK" /\ rename(p, n, p, n, 0, TRUE))
             => \A i \in DOMAIN inodes :
                   i = entry.st_ino
                   => /\ lookup_db(inodes', contents', p, n).err = "OK"
                      /\ lookup_db(inodes', contents', p, n).st_ino = i
                      /\ i \in DOMAIN inodes'
                      /\ \A r \in telegram_messages :
                            r.inode = i
                            => /\ r \in telegram_messages'
                               /\ r.id \in DOMAIN channel => r.id \in DOMAIN channel']_vars

====
